---- MODULE Spec2Model ----
(***************************************************************************)
(* Model of retell_sync_client.py: one run of main() -- load environment,  *)
(* create the phone call, poll its status, persist and extract the last    *)
(* snapshot, download the artifacts, log the summary, optionally scrub.    *)
(*                                                                         *)
(* Python values are encoded as records so that values of different        *)
(* Python types can be compared: None, Str(s), Num(n); an object is the    *)
(* record of its attributes (an attribute the object does not have is a    *)
(* field outside its DOMAIN).  An unbound local variable is Unbound.       *)
(***************************************************************************)
EXTENDS Integers, Sequences, FiniteSets, TLC

VARIABLES
    pc,                    \* position of main() / poll_call_status()
    env,                   \* the process environment read by os.getenv
    scrub_sensitive_data,  \* main's locals set by the env block
    max_wait_time,
    wait_interval,
    call_id,               \* main's call_id (Unbound until create succeeds)
    waited,                \* poll_call_status local
    call_response,         \* poll_call_status local (Unbound until a retrieve succeeds)
    main_call_response,    \* main's call_response: the value poll_call_status returned
    duration, cost, summary, recording_url, log_url, recording_file_path,
    files,                 \* local files written by this run: name -> content
    service,               \* calls issued to the remote service and GETs issued
    logged,                \* log records of interest emitted so far
    hist                   \* history of the poll loop (observation only)

vars == <<pc, env, scrub_sensitive_data, max_wait_time, wait_interval, call_id,
          waited, call_response, main_call_response,
          duration, cost, summary, recording_url, log_url, recording_file_path,
          files, service, logged, hist>>

(***************************************************************************)
(* Bounds of the model.                                                    *)
(***************************************************************************)
MaxWaitBound == 3       \* MAX_WAIT_TIME ranges over 0..MaxWaitBound
MaxIntervalBound == 2   \* WAIT_INTERVAL ranges over -1..MaxIntervalBound
MaxRetrieves == 3       \* cap on the retrieves of a loop whose interval is 0

(***************************************************************************)
(* Python values.                                                          *)
(***************************************************************************)
None == [none |-> TRUE]
Unbound == [unbound |-> TRUE]
Str(s) == [str |-> s]
Num(n) == [num |-> n]

\* getattr(obj, name, default): the attribute if the object has it, else the default.
\* None has no attribute of interest.
GetAttr(obj, name, default) ==
    IF name \in DOMAIN obj /\ obj # None THEN obj[name] ELSE default

\* obj.name: raises AttributeError when the object lacks the attribute
HasAttr(obj, name) == name \in DOMAIN obj /\ obj # None

\* truth value of a Python value: None and '' are false
Truthy(v) == v # None /\ v # Str("")

(***************************************************************************)
(* The environment.  A variable is None when unset; a text value is        *)
(* [chars |-> <<...>>]; a text that int() accepts is [int |-> n], the      *)
(* integer it denotes.                                                     *)
(***************************************************************************)
Chars(s) == [chars |-> s]
IntText(n) == [int |-> n]

Whitespace == {" ", "\t", "\n"}

\* str.lower() on one character
LowerChar(c) ==
    CASE c = "Y" -> "y" [] c = "E" -> "e" [] c = "S" -> "s"
      [] c = "T" -> "t" [] c = "R" -> "r" [] c = "U" -> "u"
      [] c = "N" -> "n" [] c = "O" -> "o"
      [] OTHER -> c

RECURSIVE LStrip(_)
LStrip(s) == IF s # <<>> /\ Head(s) \in Whitespace THEN LStrip(Tail(s)) ELSE s

RECURSIVE RStrip(_)
RStrip(s) ==
    IF s # <<>> /\ s[Len(s)] \in Whitespace THEN RStrip(SubSeq(s, 1, Len(s) - 1)) ELSE s

\* str.strip()
Strip(s) == RStrip(LStrip(s))

\* str.lower()
Lower(s) == [i \in 1..Len(s) |-> LowerChar(s[i])]

\* values SCRUB_SENSITIVE_CALL_DATA takes in the model
ScrubTexts == { <<" ", "Y", "e", "s", " ">>, <<"1">>, <<"n", "o">> }

\* the required string variables other than SCRUB_SENSITIVE_CALL_DATA;
\* the field unset of an environment is the set of those that are not set
StrVars == {"RETELL_API_KEY", "FROM_PHONE_NUMBER", "TO_PHONE_NUMBER",
            "MY_FULL_NAME", "MY_PHONE_NUMBER", "MY_SSN"}

Environments ==
    [SCRUB_SENSITIVE_CALL_DATA : {None} \cup {Chars(t) : t \in ScrubTexts},
     MAX_WAIT_TIME : {None, Chars(<<"x">>)} \cup {IntText(n) : n \in 0..MaxWaitBound},
     WAIT_INTERVAL : {None, Chars(<<"x">>)} \cup {IntText(n) : n \in -1..MaxIntervalBound},
     unset : {{}} \cup {{v} : v \in StrVars}]

\* load_and_validate_env(var_name, str) does not raise
StrLoads(value) == value # None

\* load_and_validate_env(var_name, int) does not raise
IntLoads(value) == value # None /\ "int" \in DOMAIN value

\* the env block of main() completes without an exception
EnvLoads(e) ==
    /\ StrLoads(e.SCRUB_SENSITIVE_CALL_DATA)
    /\ e.unset = {}
    /\ IntLoads(e.MAX_WAIT_TIME)
    /\ IntLoads(e.WAIT_INTERVAL)

(***************************************************************************)
(* Snapshots returned by sync_client.call.retrieve.                        *)
(***************************************************************************)
CostObj == [total_duration_seconds |-> Num(42), combined_cost |-> Num(123)]
AnalysisObj == [call_summary |-> Str("summary text")]
RecUrl == Str("https://x/y.wav")
LogUrl == Str("https://x/y.log")

FullSnapshots ==
    [call_status : {Str("ongoing"), Str("ended")},
     call_cost : {None, CostObj},
     call_analysis : {None, AnalysisObj},
     recording_url : {None, RecUrl},
     public_log_url : {None, LogUrl}]

\* attributes a snapshot object may lack altogether
OptionalAttrs == {"call_cost", "call_analysis", "recording_url", "public_log_url"}

Without(r, M) == [a \in DOMAIN r \ M |-> r[a]]

Payloads == { Without(r, M) : r \in FullSnapshots, M \in SUBSET OptionalAttrs }

\* snapshots that vary in what their URL attributes hold: None, '', '-', a URL,
\* or the attribute is missing
FullUrlSnapshots ==
    [call_status : {Str("ongoing"), Str("ended")},
     call_cost : {CostObj},
     call_analysis : {AnalysisObj},
     recording_url : {None, Str(""), Str("-"), RecUrl},
     public_log_url : {None, Str(""), Str("-"), LogUrl}]

UrlPayloads ==
    { Without(r, M) : r \in FullUrlSnapshots,
                      M \in SUBSET {"recording_url", "public_log_url"} }

\* snapshots that vary in their status, in whether the extraction raises and
\* in whether there is a recording to download
StatusPayloads ==
    { Without(r, M) :
        r \in [call_status : {Str("ongoing"), Str("ended")},
               call_cost : {CostObj},
               call_analysis : {AnalysisObj},
               recording_url : {None, RecUrl},
               public_log_url : {LogUrl}],
        M \in {{}, {"call_cost"}} }

\* the snapshot object returned by the k-th retrieve of the run
Snapshot(p, k) == [a \in DOMAIN p \cup {"attempt"} |-> IF a = "attempt" THEN Num(k) ELSE p[a]]

\* the configuration of the documented example: 180 seconds, polled every 6
LongEnvironment ==
    [SCRUB_SENSITIVE_CALL_DATA |-> Chars(<<"n", "o">>),
     MAX_WAIT_TIME |-> IntText(180),
     WAIT_INTERVAL |-> IntText(6),
     unset |-> {}]

(***************************************************************************)
(* Initial state: the process has started, nothing has been read or done.  *)
(***************************************************************************)
FileNames == {"json", "wav", "log"}   \* {T}_{C}.json, {T}_{C}.wav, {T}_{C}.log
Absent == [absent |-> TRUE]           \* the file does not exist
Truncated == [truncated |-> TRUE]     \* opened for writing, the write did not complete

\* sleeps: completed time.sleep calls; last_ok: result of the latest retrieve
\* that returned; ended_at / failed_at: attempt that saw 'ended' / that raised;
\* exit: how the loop was left; outcome: what each later step did;
\* downloads: the download_file calls made, in order.
NoHist == [sleeps |-> 0, last_ok |-> None, ended_at |-> 0, failed_at |-> 0,
           exit |-> "none",
           outcome |-> [json |-> "none", wav |-> "none", log |-> "none", scrub |-> "none"],
           downloads |-> <<>>]

Log(m) == [msg |-> m]

InitIn(envs) ==
    /\ pc = "start"
    /\ env \in envs
    /\ scrub_sensitive_data = Unbound
    /\ max_wait_time = 0
    /\ wait_interval = 0
    /\ call_id = Unbound
    /\ waited = 0
    /\ call_response = Unbound
    /\ main_call_response = Unbound
    /\ duration = Unbound
    /\ cost = Unbound
    /\ summary = Unbound
    /\ recording_url = Unbound
    /\ log_url = Unbound
    /\ recording_file_path = Unbound
    /\ files = [f \in FileNames |-> Absent]
    /\ service = [create |-> 0, retrieve |-> 0, update |-> 0, http_get |-> 0]
    /\ logged = {}
    /\ hist = NoHist

Init == InitIn(Environments)

\* the same program, started also in the documented 180/6 configuration
InitLong == InitIn(Environments \cup {LongEnvironment})

(***************************************************************************)
(* main(), lines 232-244: the env block.                                   *)
(***************************************************************************)
locals == <<scrub_sensitive_data, max_wait_time, wait_interval>>
extracted == <<duration, cost, summary, recording_url, log_url, recording_file_path>>

load_env ==
    /\ pc = "start"
    /\ IF EnvLoads(env)
          THEN /\ scrub_sensitive_data' =
                      Chars(Lower(Strip(env.SCRUB_SENSITIVE_CALL_DATA.chars)))
               /\ max_wait_time' = env.MAX_WAIT_TIME.int
               /\ wait_interval' = env.WAIT_INTERVAL.int
               /\ pc' = "create"
               /\ UNCHANGED logged
          ELSE /\ logged' = logged \cup {Log("Environment setup failed")}
               /\ pc' = "returned"
               /\ UNCHANGED locals
    /\ UNCHANGED <<env, call_id, waited, call_response, main_call_response,
                   extracted, files, service, hist>>

\* a main() that logs the failed create and goes on to poll
create_phone_call_swallow ==
    /\ pc = "create"
    /\ service' = [service EXCEPT !.create = @ + 1]
    /\ \E ok \in BOOLEAN :
         IF ok
            THEN /\ call_id' = Str("abc123")
                 /\ logged' = logged \cup {Log("Call initiated")}
            ELSE /\ logged' = logged \cup {Log("Error creating phone call")}
                 /\ UNCHANGED call_id
    /\ pc' = "poll"
    /\ UNCHANGED <<env, locals, waited, call_response, main_call_response,
                   extracted, files, hist>>

(***************************************************************************)
(* create_phone_call, and main() lines 256-260.                            *)
(***************************************************************************)
create_phone_call ==
    /\ pc = "create"
    /\ service' = [service EXCEPT !.create = @ + 1]
    /\ \E ok \in BOOLEAN :
         IF ok
            THEN /\ call_id' = Str("abc123")
                 /\ logged' = logged \cup {Log("Call initiated")}
                 /\ pc' = "poll"
            ELSE /\ logged' = logged \cup {Log("Error creating phone call"),
                                           Log("Failed to initiate phone call. Exiting.")}
                 /\ pc' = "returned"
                 /\ UNCHANGED call_id
    /\ UNCHANGED <<env, locals, waited, call_response, main_call_response,
                   extracted, files, hist>>

(***************************************************************************)
(* poll_call_status.  pc = "poll" is the loop test of line 168.            *)
(***************************************************************************)
\* the loop test written with <= instead of <
LoopTest_inclusive(w, m) == w <= m

\* line 168: while waited < max_wait_sec
LoopTest(w, m) == w < m

\* the handler of line 175 without its break: the loop goes on to the sleep
retrieve_raises_continue(k) ==
    /\ logged' = logged \cup {Log("Error retrieving call details"),
                              Log("Error getting call details during polling.")}
    /\ hist' = [hist EXCEPT !.failed_at = k, !.exit = "error"]
    /\ pc' = "sleep"
    /\ UNCHANGED <<call_response, main_call_response>>

\* lines 168-177, get_call_details raised: log and break
retrieve_raises(k) ==
    /\ logged' = logged \cup {Log("Error retrieving call details"),
                              Log("Error getting call details during polling.")}
    /\ hist' = [hist EXCEPT !.failed_at = k, !.exit = "error"]
    /\ pc' = "poll_exit"
    /\ UNCHANGED <<call_response, main_call_response>>

\* a loop that sees 'ended' and does not return
retrieve_returns_noreturn(s, k) ==
    /\ call_response' = s
    /\ UNCHANGED <<logged, main_call_response>>
    /\ hist' = IF GetAttr(s, "call_status", None) = Str("ended")
                  THEN [hist EXCEPT !.last_ok = s, !.ended_at = k]
                  ELSE [hist EXCEPT !.last_ok = s]
    /\ pc' = "sleep"

\* a loop that keeps the first snapshot it obtained
retrieve_returns_keep_first(s, k) ==
    /\ call_response' = IF call_response = Unbound THEN s ELSE call_response
    /\ UNCHANGED logged
    /\ IF GetAttr(s, "call_status", None) = Str("ended")
          THEN /\ main_call_response' = call_response'
               /\ hist' = [hist EXCEPT !.last_ok = s, !.ended_at = k, !.exit = "ended"]
               /\ pc' = "main_check"
          ELSE /\ hist' = [hist EXCEPT !.last_ok = s]
               /\ pc' = "sleep"
               /\ UNCHANGED main_call_response

\* lines 170-174, get_call_details returned snapshot s
retrieve_returns(s, k) ==
    /\ call_response' = s
    /\ UNCHANGED logged
    /\ IF GetAttr(s, "call_status", None) = Str("ended")
          THEN /\ main_call_response' = s
               /\ hist' = [hist EXCEPT !.last_ok = s, !.ended_at = k, !.exit = "ended"]
               /\ pc' = "main_check"
          ELSE /\ hist' = [hist EXCEPT !.last_ok = s]
               /\ pc' = "sleep"
               /\ UNCHANGED main_call_response

\* one iteration of the loop up to the sleep: lines 168-177
poll_retrieve_in(payloads) ==
    /\ pc = "poll"
    /\ LoopTest(waited, max_wait_time)
    /\ wait_interval = 0 => service.retrieve < MaxRetrieves
    /\ service' = [service EXCEPT !.retrieve = @ + 1]
    /\ \/ retrieve_raises(service.retrieve + 1)
       \/ \E p \in payloads :
            retrieve_returns(Snapshot(p, service.retrieve + 1), service.retrieve + 1)
    /\ UNCHANGED <<env, locals, call_id, waited, extracted, files>>

poll_retrieve == poll_retrieve_in(Payloads)

\* the same step with a service whose snapshots are those of StatusPayloads
poll_retrieve_status == poll_retrieve_in(StatusPayloads)

\* the same step with a service whose snapshots vary in their URLs only
poll_retrieve_urls == poll_retrieve_in(UrlPayloads)

\* a loop that sleeps the interval and counts one second
poll_sleep_counts_one ==
    /\ pc = "sleep"
    /\ IF wait_interval < 0
          THEN /\ pc' = "crashed"
               /\ logged' = logged \cup {Log("Unhandled exception occurred.")}
               /\ UNCHANGED <<waited, hist>>
          ELSE /\ waited' = waited + (IF wait_interval > 1 THEN 1 ELSE wait_interval)
               /\ hist' = [hist EXCEPT !.sleeps = @ + 1]
               /\ pc' = "poll"
               /\ UNCHANGED logged
    /\ UNCHANGED <<env, locals, call_id, call_response, main_call_response,
                   extracted, files, service>>

\* lines 179-180: time.sleep raises ValueError for a negative interval, and
\* nothing up to the handler of line 315 catches it
poll_sleep ==
    /\ pc = "sleep"
    /\ IF wait_interval < 0
          THEN /\ pc' = "crashed"
               /\ logged' = logged \cup {Log("Unhandled exception occurred.")}
               /\ UNCHANGED <<waited, hist>>
          ELSE /\ waited' = waited + wait_interval
               /\ hist' = [hist EXCEPT !.sleeps = @ + 1]
               /\ pc' = "poll"
               /\ UNCHANGED logged
    /\ UNCHANGED <<env, locals, call_id, call_response, main_call_response,
                   extracted, files, service>>

\* line 168: the loop test fails
poll_timeout ==
    /\ pc = "poll"
    /\ ~LoopTest(waited, max_wait_time)
    /\ hist' = [hist EXCEPT !.exit = "timeout"]
    /\ pc' = "poll_exit"
    /\ UNCHANGED <<env, locals, call_id, waited, call_response, main_call_response,
                   extracted, files, service, logged>>

\* an exit that returns None whenever the loop was left without 'ended'
poll_exit_none ==
    /\ pc = "poll_exit"
    /\ logged' = logged \cup {Log("Call monitoring timed out. Exiting loop.")}
    /\ main_call_response' = None
    /\ pc' = "main_check"
    /\ UNCHANGED <<env, locals, call_id, waited, call_response,
                   extracted, files, service, hist>>

\* lines 182-186: reached by the break and by the failed loop test
poll_exit ==
    /\ pc = "poll_exit"
    /\ logged' = logged \cup {Log("Call monitoring timed out. Exiting loop.")}
    /\ main_call_response' = IF call_response = Unbound THEN None ELSE call_response
    /\ pc' = "main_check"
    /\ UNCHANGED <<env, locals, call_id, waited, call_response,
                   extracted, files, service, hist>>

\* main() without the test of line 263
main_check_no_guard ==
    /\ pc = "main_check"
    /\ pc' = "save_json"
    /\ UNCHANGED <<env, locals, call_id, waited, call_response, main_call_response,
                   extracted, files, service, hist, logged>>

\* main() lines 262-265
main_check ==
    /\ pc = "main_check"
    /\ IF ~Truthy(main_call_response)
          THEN /\ logged' = logged \cup {Log("No call response retrieved. Exiting.")}
               /\ pc' = "returned"
          ELSE /\ pc' = "save_json"
               /\ UNCHANGED logged
    /\ UNCHANGED <<env, locals, call_id, waited, call_response, main_call_response,
                   extracted, files, service, hist>>

(***************************************************************************)
(* main() lines 267-275: save the snapshot as JSON.                        *)
(***************************************************************************)
\* call_response.to_json(): the serialized attributes of the object
ToJson(obj) == [json |-> obj]

\* a save whose exception is not caught at line 274
save_json_propagates ==
    /\ pc = "save_json"
    /\ \E o \in {"ok", "serialize_failed", "open_failed", "write_failed"} :
         /\ hist' = [hist EXCEPT !.outcome.json = o]
         /\ files' = CASE o = "ok" -> [files EXCEPT !["json"] = ToJson(main_call_response)]
                       [] o = "write_failed" -> [files EXCEPT !["json"] = Truncated]
                       [] OTHER -> files
         /\ logged' = logged \cup
                {IF o = "ok" THEN Log("Call response saved as JSON")
                             ELSE Log("Unhandled exception occurred.")}
         /\ pc' = IF o = "ok" THEN "extract" ELSE "crashed"
    /\ UNCHANGED <<env, locals, call_id, waited, call_response, main_call_response,
                   extracted, service>>

save_json ==
    /\ pc = "save_json"
    /\ \E o \in {"ok", "serialize_failed", "open_failed", "write_failed"} :
         /\ hist' = [hist EXCEPT !.outcome.json = o]
         /\ files' = CASE o = "ok" -> [files EXCEPT !["json"] = ToJson(main_call_response)]
                       [] o = "write_failed" -> [files EXCEPT !["json"] = Truncated]
                       [] OTHER -> files
         /\ logged' = logged \cup
                {IF o = "ok" THEN Log("Call response saved as JSON")
                             ELSE Log("Failed to save call response JSON")}
    /\ pc' = "extract"
    /\ UNCHANGED <<env, locals, call_id, waited, call_response, main_call_response,
                   extracted, service>>

(***************************************************************************)
(* main() lines 277-285 and the handler of lines 291-294.                  *)
(***************************************************************************)
Unavailable == Str("Unavailable")
Dash == Str("-")

\* lines 279-283 raise AttributeError
ExtractRaises(r) == ~HasAttr(r, "call_cost") \/ ~HasAttr(r, "call_analysis")

\* a handler that resets only the fields the try block had not reached
extract_partial ==
    /\ pc = "extract"
    /\ IF ExtractRaises(main_call_response)
          THEN /\ duration' = IF HasAttr(main_call_response, "call_cost")
                                THEN GetAttr(main_call_response.call_cost,
                                             "total_duration_seconds", Dash)
                                ELSE Unavailable
               /\ cost' = IF HasAttr(main_call_response, "call_cost")
                            THEN GetAttr(main_call_response.call_cost, "combined_cost", Dash)
                            ELSE Unavailable
               /\ summary' = Unavailable
               /\ recording_url' = Unavailable
               /\ log_url' = Unavailable
               /\ recording_file_path' = Unavailable
               /\ logged' = logged \cup {Log("Error extracting or downloading call details")}
               /\ pc' = "summary"
          ELSE /\ duration' = GetAttr(main_call_response.call_cost, "total_duration_seconds", Dash)
               /\ cost' = GetAttr(main_call_response.call_cost, "combined_cost", Dash)
               /\ summary' = GetAttr(main_call_response.call_analysis, "call_summary", Dash)
               /\ recording_url' = GetAttr(main_call_response, "recording_url", Dash)
               /\ log_url' = GetAttr(main_call_response, "public_log_url", Dash)
               /\ recording_file_path' = Str("wav")
               /\ pc' = "download_recording"
               /\ UNCHANGED logged
    /\ UNCHANGED <<env, locals, call_id, waited, call_response, main_call_response,
                   files, service, hist>>

extract ==
    /\ pc = "extract"
    /\ IF ExtractRaises(main_call_response)
          THEN /\ duration' = Unavailable
               /\ cost' = Unavailable
               /\ summary' = Unavailable
               /\ recording_url' = Unavailable
               /\ log_url' = Unavailable
               /\ recording_file_path' = Unavailable
               /\ logged' = logged \cup {Log("Error extracting or downloading call details")}
               /\ pc' = "summary"
          ELSE /\ duration' = GetAttr(main_call_response.call_cost, "total_duration_seconds", Dash)
               /\ cost' = GetAttr(main_call_response.call_cost, "combined_cost", Dash)
               /\ summary' = GetAttr(main_call_response.call_analysis, "call_summary", Dash)
               /\ recording_url' = GetAttr(main_call_response, "recording_url", Dash)
               /\ log_url' = GetAttr(main_call_response, "public_log_url", Dash)
               /\ recording_file_path' = Str("wav")
               /\ pc' = "download_recording"
               /\ UNCHANGED logged
    /\ UNCHANGED <<env, locals, call_id, waited, call_response, main_call_response,
                   files, service, hist>>

(***************************************************************************)
(* download_file(url, output_file_path), lines 77-91.                      *)
(***************************************************************************)
\* a test that knows the sentinel and forgets the missing value
InvalidUrl_dash_only(url) == url = Dash

\* a test that knows the missing value and forgets the sentinel
InvalidUrl_falsy_only(url) == ~Truthy(url)

\* line 77
InvalidUrl(url) == ~Truthy(url) \/ url = Dash

download_file(url, name) ==
    IF InvalidUrl(url)
       THEN /\ logged' = logged \cup {Log("Invalid or missing URL provided for downloading")}
            /\ hist' = [hist EXCEPT !.outcome[name] = "noop", !.downloads = Append(@, name)]
            /\ UNCHANGED <<files, service>>
       ELSE /\ service' = [service EXCEPT !.http_get = @ + 1]
            /\ \E o \in {"ok", "request_failed", "open_failed", "write_failed"} :
                 /\ hist' = [hist EXCEPT !.outcome[name] = o, !.downloads = Append(@, name)]
                 /\ files' = CASE o = "ok" -> [files EXCEPT ![name] = [body_of |-> url]]
                               [] o = "write_failed" -> [files EXCEPT ![name] = Truncated]
                               [] OTHER -> files
                 /\ logged' = logged \cup
                        {CASE o = "ok" -> Log("File saved")
                           [] o = "request_failed" -> Log("Failed to download file")
                           [] OTHER -> Log("Failed to write file")}

\* a recording download whose failure reaches the handler of line 291
download_recording_propagates ==
    /\ pc = "download_recording"
    /\ download_file(recording_url, "wav")
    /\ pc' = IF hist'.outcome.wav \in {"ok", "noop"} THEN "download_log" ELSE "summary"
    /\ UNCHANGED <<env, locals, call_id, waited, call_response, main_call_response, extracted>>

\* main() line 286
download_recording ==
    /\ pc = "download_recording"
    /\ download_file(recording_url, "wav")
    /\ pc' = "download_log"
    /\ UNCHANGED <<env, locals, call_id, waited, call_response, main_call_response, extracted>>

\* a log download whose failure reaches the handler of lines 291-294
download_log_resets ==
    /\ pc = "download_log"
    /\ download_file(log_url, "log")
    /\ pc' = "summary"
    /\ IF hist'.outcome.log \in {"ok", "noop"}
          THEN UNCHANGED extracted
          ELSE /\ duration' = Unavailable /\ cost' = Unavailable /\ summary' = Unavailable
               /\ recording_url' = Unavailable /\ log_url' = Unavailable
               /\ recording_file_path' = Unavailable
    /\ UNCHANGED <<env, locals, call_id, waited, call_response, main_call_response>>

\* main() lines 288-289
download_log ==
    /\ pc = "download_log"
    /\ download_file(log_url, "log")
    /\ pc' = "summary"
    /\ UNCHANGED <<env, locals, call_id, waited, call_response, main_call_response, extracted>>

(***************************************************************************)
(* main() lines 296-309: the summary and the optional scrub.               *)
(***************************************************************************)
ScrubWords == { <<"y", "e", "s">>, <<"t", "r", "u", "e">>, <<"1">> }

\* line 303
ScrubRequested(flag) == flag # Unbound /\ flag.chars \in ScrubWords

log_summary ==
    /\ pc = "summary"
    /\ logged' = logged \cup
           {[msg |-> "summary", recording_file_path |-> recording_file_path,
             duration |-> duration, cost |-> cost, summary |-> summary]}
    /\ pc' = IF ScrubRequested(scrub_sensitive_data) THEN "scrub" ELSE "done"
    /\ UNCHANGED <<env, locals, call_id, waited, call_response, main_call_response,
                   extracted, files, service, hist>>

\* a scrub whose exception is not caught at line 308
scrub_call_data_propagates ==
    /\ pc = "scrub"
    /\ service' = [service EXCEPT !.update = @ + 1]
    /\ \E ok \in BOOLEAN :
         /\ hist' = [hist EXCEPT !.outcome.scrub = IF ok THEN "ok" ELSE "failed"]
         /\ logged' = logged \cup
                (IF ok THEN {Log("Call scrubbed successfully"),
                             Log("Sensitive call data scrubbed successfully.")}
                       ELSE {Log("Error scrubbing phone call details"),
                             Log("Unhandled exception occurred.")})
         /\ pc' = IF ok THEN "done" ELSE "crashed"
    /\ UNCHANGED <<env, locals, call_id, waited, call_response, main_call_response,
                   extracted, files>>

\* scrub_call_data, and main() lines 304-309
scrub_call_data ==
    /\ pc = "scrub"
    /\ service' = [service EXCEPT !.update = @ + 1]
    /\ \E ok \in BOOLEAN :
         /\ hist' = [hist EXCEPT !.outcome.scrub = IF ok THEN "ok" ELSE "failed"]
         /\ logged' = logged \cup
                (IF ok THEN {Log("Call scrubbed successfully"),
                             Log("Sensitive call data scrubbed successfully.")}
                       ELSE {Log("Error scrubbing phone call details"),
                             Log("Failed to scrub sensitive call data.")})
    /\ pc' = "done"
    /\ UNCHANGED <<env, locals, call_id, waited, call_response, main_call_response,
                   extracted, files>>

Next ==
    \/ load_env
    \/ create_phone_call
    \/ poll_retrieve
    \/ poll_sleep
    \/ poll_timeout
    \/ poll_exit
    \/ main_check
    \/ save_json
    \/ extract
    \/ download_recording
    \/ download_log
    \/ log_summary
    \/ scrub_call_data

Spec == Init /\ [][Next]_vars

SpecLong == InitLong /\ [][Next]_vars

NextStatus ==
    \/ load_env
    \/ create_phone_call
    \/ poll_retrieve_status
    \/ poll_sleep
    \/ poll_timeout
    \/ poll_exit
    \/ main_check
    \/ save_json
    \/ extract
    \/ download_recording
    \/ download_log
    \/ log_summary
    \/ scrub_call_data

\* the program run against the snapshots of StatusPayloads; main() runs to its
\* end or to a return: every enabled step is eventually taken
FairSpec == Init /\ [][NextStatus]_vars /\ WF_vars(NextStatus)

NextUrls ==
    \/ load_env
    \/ create_phone_call
    \/ poll_retrieve_urls
    \/ poll_sleep
    \/ poll_timeout
    \/ poll_exit
    \/ main_check
    \/ save_json
    \/ extract
    \/ download_recording
    \/ download_log
    \/ log_summary
    \/ scrub_call_data

\* the program run against the snapshots of UrlPayloads
SpecUrls == Init /\ [][NextUrls]_vars

TypeOK == pc \in {"start", "create", "poll", "sleep", "poll_exit", "main_check", "save_json",
                  "extract", "download_recording", "download_log", "summary", "scrub",
                  "done", "returned", "crashed"}

(***************************************************************************)
(* Observations used by the properties.                                    *)
(***************************************************************************)
\* main() is past the test of line 263: persistence, extraction, summary, scrub
PostPoll == {"save_json", "extract", "download_recording", "download_log",
             "summary", "scrub", "done"}

SummaryLogged == \E l \in logged : l.msg = "summary"

TimedOutReported == Log("Call monitoring timed out. Exiting loop.") \in logged

NoFiles == \A f \in FileNames : files[f] = Absent

NothingExtracted ==
    /\ duration = Unbound /\ cost = Unbound /\ summary = Unbound
    /\ recording_url = Unbound /\ log_url = Unbound /\ recording_file_path = Unbound

\* the derived fields are the ones lines 279-294 compute from snapshot r
ExtractedFrom(r) ==
    IF ExtractRaises(r)
       THEN /\ duration = Unavailable /\ cost = Unavailable /\ summary = Unavailable
            /\ recording_url = Unavailable /\ log_url = Unavailable
       ELSE /\ duration = GetAttr(r.call_cost, "total_duration_seconds", Dash)
            /\ cost = GetAttr(r.call_cost, "combined_cost", Dash)
            /\ summary = GetAttr(r.call_analysis, "call_summary", Dash)
            /\ recording_url = GetAttr(r, "recording_url", Dash)
            /\ log_url = GetAttr(r, "public_log_url", Dash)

\* the content a file has, given what the step that writes it did
Written(o, content) ==
    CASE o = "ok" -> content [] o = "write_failed" -> Truncated [] OTHER -> Absent

\* every file is as the step that writes it left it
FilesAsWritten ==
    /\ files["json"] = Written(hist.outcome.json, ToJson(main_call_response))
    /\ files["wav"] = Written(hist.outcome.wav, [body_of |-> recording_url])
    /\ files["log"] = Written(hist.outcome.log, [body_of |-> log_url])

Ceil(m, i) == (m + i - 1) \div i

(***************************************************************************)
(* C1: when the k-th retrieve returns a snapshot whose call_status is      *)
(* 'ended', the loop stops at attempt k: no further retrieve is issued, no *)
(* sleep follows attempt k, and the snapshot returned to main() is the one *)
(* of attempt k.                                                           *)
(***************************************************************************)
C1_EndedStopsPolling ==
    hist.ended_at > 0 =>
        /\ pc \notin {"poll", "sleep", "poll_exit"}
        /\ service.retrieve = hist.ended_at
        /\ hist.sleeps = hist.ended_at - 1
        /\ main_call_response = call_response
        /\ main_call_response.attempt = Num(hist.ended_at)
        /\ main_call_response.call_status = Str("ended")

C1_Witness == pc = "done" /\ hist.ended_at = 2

C3_FailedRetrieveIsTerminal ==
    hist.failed_at > 0 =>
        /\ pc \notin {"poll", "sleep"}
        /\ service.retrieve = hist.failed_at
        /\ hist.sleeps = hist.failed_at - 1

C3_Witness ==
    /\ pc = "done" /\ hist.failed_at = 2
    /\ waited + wait_interval < max_wait_time

C5_NoSnapshotAborts ==
    hist.last_ok = None =>
        /\ pc \notin PostPoll
        /\ NoFiles
        /\ NothingExtracted
        /\ hist.downloads = <<>>
        /\ service.http_get = 0
        /\ (hist.exit # "none" /\ pc \notin {"poll_exit", "main_check"}) => pc = "returned"

C5_Witness ==
    /\ pc = "returned" /\ hist.failed_at = 1 /\ hist.last_ok = None
    /\ Log("No call response retrieved. Exiting.") \in logged

(***************************************************************************)
(* C6: if create-call fails the run stops: no retrieve is issued, no file  *)
(* is written and no scrub update is issued, also when scrubbing is        *)
(* requested.                                                              *)
(***************************************************************************)
C6_CreateFailureIsFatal ==
    (service.create > 0 /\ call_id = Unbound) =>
        /\ pc = "returned"
        /\ service.retrieve = 0
        /\ service.update = 0
        /\ service.http_get = 0
        /\ NoFiles

C6_Witness ==
    /\ pc = "returned" /\ service.create = 1 /\ call_id = Unbound
    /\ ScrubRequested(scrub_sensitive_data)

C8_PersistenceStepsIndependent ==
    /\ (hist.outcome.wav # "none" /\ pc # "download_log") =>
           hist.downloads = <<"wav", "log">>
    /\ (pc \in {"summary", "scrub", "done"} /\ ~ExtractRaises(main_call_response)) =>
           hist.downloads = <<"wav", "log">>
    /\ pc \in PostPoll \ {"save_json"} => hist.outcome.json # "none"
    /\ hist.outcome.json = "ok" => files["json"] = ToJson(main_call_response)

C8_Witness ==
    /\ pc = "done"
    /\ hist.outcome.json = "serialize_failed"
    /\ hist.outcome.wav = "request_failed"
    /\ hist.outcome.log = "ok"

(***************************************************************************)
(* C9: a failed scrub update is not fatal: the run completes, and the JSON *)
(* file, the downloads and the logged summary, all produced before the     *)
(* scrub, are as they were produced.                                       *)
(***************************************************************************)
C9_ScrubFailureNotFatal ==
    hist.outcome.scrub = "failed" =>
        /\ pc = "done"
        /\ service.update = 1
        /\ SummaryLogged
        /\ hist.outcome.json # "none"
        /\ FilesAsWritten

C9_Witness ==
    /\ pc = "done" /\ hist.outcome.scrub = "failed"
    /\ files["json"] = ToJson(main_call_response)
    /\ files["wav"] = [body_of |-> RecUrl]

(***************************************************************************)
(* C10: once main() holds a snapshot, no failure of the JSON save, of the  *)
(* extraction or of a download leaves the run: the run can always take its *)
(* next step, logs its summary, issues the scrub when it is requested, and *)
(* ends at done.                                                           *)
(***************************************************************************)
C10_NoFailurePropagates ==
    (main_call_response \notin {Unbound, None} /\ pc # "main_check") =>
        /\ pc \in PostPoll
        /\ pc # "done" => ENABLED Next
        /\ pc \in {"scrub", "done"} => SummaryLogged
        /\ (pc = "done" /\ ScrubRequested(scrub_sensitive_data)) => service.update = 1

C10_Witness ==
    /\ pc = "done"
    /\ hist.outcome.json = "open_failed"
    /\ hist.outcome.wav = "write_failed"
    /\ hist.outcome.log = "request_failed"
    /\ service.update = 1

(***************************************************************************)
(* Observations on the extraction.                                         *)
(***************************************************************************)
\* main() is past the try block of lines 277-294
AfterExtract == {"download_recording", "download_log", "summary", "scrub", "done"}

\* the attribute is absent from the snapshot: the object lacks it, or it is None
AttrAbsent(r, a) == ~HasAttr(r, a) \/ r[a] = None

\* the same snapshot with a call_cost object
WithCost(r) ==
    [a \in DOMAIN r \cup {"call_cost"} |-> IF a = "call_cost" THEN CostObj ELSE r[a]]

\* the fields lines 279-294 derive from snapshot r
Derive(r) ==
    IF ExtractRaises(r)
       THEN [duration |-> Unavailable, cost |-> Unavailable, summary |-> Unavailable,
             recording_url |-> Unavailable, log_url |-> Unavailable]
       ELSE [duration |-> GetAttr(r.call_cost, "total_duration_seconds", Dash),
             cost |-> GetAttr(r.call_cost, "combined_cost", Dash),
             summary |-> GetAttr(r.call_analysis, "call_summary", Dash),
             recording_url |-> GetAttr(r, "recording_url", Dash),
             log_url |-> GetAttr(r, "public_log_url", Dash)]

ExtractionFailed == Log("Error extracting or downloading call details") \in logged

\* the values download_file is to take for no URL
NoUrl == {Str("-"), Str(""), None}

\* the snapshot carries a URL in attribute a
HasUrl(r, a) == HasAttr(r, a) /\ r[a] \notin NoUrl

\* the download_file calls made so far that are to issue a GET, given the
\* snapshot main() holds: those whose attribute is a URL
UrlAttr(name) == IF name = "wav" THEN "recording_url" ELSE "public_log_url"

GetsExpected ==
    Cardinality({i \in 1..Len(hist.downloads) :
                    HasUrl(main_call_response, UrlAttr(hist.downloads[i]))})

(***************************************************************************)
(* C11: for every snapshot in which call_cost is absent, the derived       *)
(* duration and cost are both '-', the extraction does not raise, and the  *)
(* derived summary, recording URL and log URL are those of the same        *)
(* snapshot with call_cost present.                                        *)
(***************************************************************************)
C11_CostAbsentDefaults ==
    (pc \in AfterExtract /\ AttrAbsent(main_call_response, "call_cost")) =>
        /\ ~ExtractionFailed
        /\ duration = Dash
        /\ cost = Dash
        /\ summary = Derive(WithCost(main_call_response)).summary
        /\ recording_url = Derive(WithCost(main_call_response)).recording_url
        /\ log_url = Derive(WithCost(main_call_response)).log_url

AbsentUrlDerived(r, a, derived) ==
    AttrAbsent(r, a) =>
        derived = (CASE ExtractRaises(r) -> Unavailable
                     [] ~HasAttr(r, a) -> Dash
                     [] OTHER -> None)

C13_AllOrNothing ==
    pc \in AfterExtract =>
        LET fields == <<duration, cost, summary, recording_url, log_url>>
        IN  \/ \A i \in 1..5 : fields[i] = Unavailable
            \/ \A i \in 1..5 : fields[i] # Unavailable

C13_Witness ==
    /\ pc = "done"
    /\ duration = Unavailable /\ log_url = Unavailable
    /\ HasAttr(main_call_response, "call_cost")
    /\ main_call_response.call_cost = CostObj
    /\ ~HasAttr(main_call_response, "call_analysis")

(***************************************************************************)
(* C14: download_file called with url '-', '' or None issues no GET and    *)
(* creates or modifies no file: the files and the number of GET requests   *)
(* are unchanged by the call.                                              *)
(***************************************************************************)
C14_InvalidUrlNoOp ==
    [][ ( \/ pc = "download_recording" /\ recording_url \in NoUrl
          \/ pc = "download_log" /\ log_url \in NoUrl )
        => /\ files' = files
           /\ service'.http_get = service.http_get ]_vars

C14_Witness ==
    /\ pc = "download_log"
    /\ recording_url = Str("")
    /\ hist.downloads = <<"wav">>
    /\ service.http_get = 0
    /\ files["json"] = ToJson(main_call_response)
    /\ files["wav"] = Absent

(***************************************************************************)
(* C15: extraction is a function of the snapshot: after the extraction     *)
(* step the derived duration, cost, summary, recording URL and log URL are *)
(* the ones this snapshot determines, whatever the JSON write and the two  *)
(* downloads did.                                                          *)
(***************************************************************************)
C15_ExtractionIsFunction ==
    pc \in AfterExtract =>
        [duration |-> duration, cost |-> cost, summary |-> summary,
         recording_url |-> recording_url, log_url |-> log_url]
            = Derive(main_call_response)

C15_Witness ==
    /\ pc = "done"
    /\ hist.outcome.json = "write_failed"
    /\ hist.outcome.wav = "request_failed"
    /\ hist.outcome.log = "open_failed"
    /\ duration = Num(42) /\ recording_url = RecUrl

(***************************************************************************)
(* C16: the poll loop is only begun with positive max_wait_sec and         *)
(* wait_interval: in every run that issues create-call or a retrieve both  *)
(* configured values are greater than zero.                                *)
(***************************************************************************)
C16_PositiveConfiguration ==
    (service.create > 0 \/ service.retrieve > 0) =>
        max_wait_time > 0 /\ wait_interval > 0

(***************************************************************************)
(* C17: the scrub update is issued at most once, exactly in the runs whose *)
(* flag is one of 'yes', 'true', '1' and that obtained a snapshot; when    *)
(* issued it comes after the JSON write and both downloads were attempted; *)
(* it is never issued in a run without a snapshot or whose flag is false.  *)
(***************************************************************************)
RunOver == pc \in {"done", "returned", "crashed"}

C17_ScrubExactlyWhenRequested ==
    /\ service.update <= 1
    /\ service.update = 1 =>
           /\ ScrubRequested(scrub_sensitive_data)
           /\ hist.last_ok # None
           /\ hist.outcome.json # "none"
           /\ hist.downloads = <<"wav", "log">>
    /\ (RunOver /\ ScrubRequested(scrub_sensitive_data) /\ hist.last_ok # None) =>
           service.update = 1

(***************************************************************************)
(* C18: the run reports a timeout only when the loop was left because      *)
(* waited reached max_wait_sec; a loop left by a failed retrieve or by     *)
(* 'ended' is never reported as timed out.                                 *)
(***************************************************************************)
C18_TimeoutReportedOnlyOnTimeout ==
    TimedOutReported => hist.exit = "timeout"

(***************************************************************************)
(* C19: for positive max_wait_sec and wait_interval and every behaviour of *)
(* the service, the loop issues at most ceil(max_wait_sec / wait_interval) *)
(* retrieves and the run ends, at done or at a return.                     *)
(***************************************************************************)
PositiveConfiguration == max_wait_time > 0 /\ wait_interval > 0

C19_RunTerminates ==
    /\ [](PositiveConfiguration =>
             service.retrieve <= Ceil(max_wait_time, wait_interval))
    /\ (pc = "create" /\ PositiveConfiguration) ~> (pc \in {"done", "returned"})

C19_Witness ==
    /\ pc = "done" /\ hist.exit = "timeout"
    /\ max_wait_time = 3 /\ wait_interval = 2 /\ service.retrieve = 2

(***************************************************************************)
(* C20: the recording path of the summary is the path of a persisted file: *)
(* when the summary reports a path other than 'Unavailable' the recording  *)
(* download succeeded and wrote that file, and when the recording file was *)
(* written the summary reports its path.                                   *)
(***************************************************************************)
C20_ReportedPathIsPersisted ==
    /\ \A l \in logged :
           (l.msg = "summary" /\ l.recording_file_path # Unavailable) =>
               /\ hist.outcome.wav = "ok"
               /\ files["wav"] = [body_of |-> recording_url]
    /\ (pc \in {"scrub", "done"} /\ hist.outcome.wav = "ok") =>
           \E l \in logged : l.msg = "summary" /\ l.recording_file_path = Str("wav")

====
